---- MODULE Spec2Model ----
(***************************************************************************)
(* Model of the command-line pipeline of transform_order_export.py:        *)
(*   read_orders -> aggregate_by_date -> generate_entries -> write_csv     *)
(* and of read_orders of utils.py, run on the same file.                   *)
(* Text fields are sequences of one-character strings, so that stripping,  *)
(* parsing, substring search and formatting are computed, not assumed.     *)
(* Monetary amounts are integers counting cents (Decimal quantized to      *)
(* 0.01); dates are records [y, m, d].                                     *)
(***************************************************************************)
EXTENDS Integers, Sequences, FiniteSets, TLC

VARIABLES header, rows, pc, orders, daily, entries, output, streamlit

vars == <<header, rows, pc, orders, daily, entries, output, streamlit>>

(***************************************************************************)
(* Bounds of the model.                                                    *)
(***************************************************************************)
MaxRows == 2

MaxCents == 6

(***************************************************************************)
(* Characters and generic string helpers.                                  *)
(***************************************************************************)
Digits == <<"0", "1", "2", "3", "4", "5", "6", "7", "8", "9">>

IsDigit(c) == \E i \in 1..10 : Digits[i] = c

DigitVal(c) == (CHOOSE i \in 1..10 : Digits[i] = c) - 1

IsSpace(c) == c = " "

Min(a, b) == IF a < b THEN a ELSE b

Max(a, b) == IF a > b THEN a ELSE b

Abs(n) == IF n < 0 THEN -n ELSE n

RECURSIVE LStrip(_)
LStrip(s) == IF s # <<>> /\ IsSpace(Head(s)) THEN LStrip(Tail(s)) ELSE s

RECURSIVE RStrip(_)
RStrip(s) ==
    IF s # <<>> /\ IsSpace(s[Len(s)]) THEN RStrip(SubSeq(s, 1, Len(s) - 1)) ELSE s

\* str.strip()
Strip(s) == RStrip(LStrip(s))

\* str.replace(old, new) for single characters
Replace(s, old, new) == [i \in 1..Len(s) |-> IF s[i] = old THEN new ELSE s[i]]

\* pat in s
Contains(s, pat) ==
    \E i \in 1..(Len(s) - Len(pat) + 1) : SubSeq(s, i, i + Len(pat) - 1) = pat

\* s[:n]
Prefix(s, n) == SubSeq(s, 1, Min(n, Len(s)))

\* value of a sequence of decimal digits (0 for the empty sequence)
RECURSIVE IntVal(_)
IntVal(s) == IF s = <<>> THEN 0 ELSE 10 * IntVal(SubSeq(s, 1, Len(s) - 1)) + DigitVal(s[Len(s)])

AllDigits(s) == \A i \in 1..Len(s) : IsDigit(s[i])

\* positions of character c in s
Positions(s, c) == {i \in 1..Len(s) : s[i] = c}

(***************************************************************************)
(* Decimal(text).quantize(Decimal("0.01"), ROUND_HALF_UP), in cents.       *)
(* Grammar modelled: surrounding whitespace, an optional sign, digits with *)
(* at most one ".", at least one digit.  Exponents, "NaN", "Infinity" and  *)
(* "_" are outside the alphabet of the modelled inputs.                    *)
(***************************************************************************)
\* The(S): the element of a one-element set; {e(x) : x \in {v}} evaluates v once
The(S) == CHOOSE x \in S : TRUE

\* digits, optionally one ".", digits: the cents of the magnitude, or -1
Magnitude(body) ==
    LET dots == Positions(body, ".")
        dot  == IF dots = {} THEN Len(body) + 1 ELSE CHOOSE i \in dots : TRUE
        ip   == SubSeq(body, 1, dot - 1)
        fp   == SubSeq(body, dot + 1, Len(body))
        d1   == IF Len(fp) >= 1 THEN DigitVal(fp[1]) ELSE 0
        d2   == IF Len(fp) >= 2 THEN DigitVal(fp[2]) ELSE 0
        up   == IF Len(fp) >= 3 /\ DigitVal(fp[3]) >= 5 THEN 1 ELSE 0
    IN  IF /\ Cardinality(dots) <= 1
           /\ AllDigits(ip) /\ AllDigits(fp)
           /\ Len(ip) + Len(fp) >= 1
        THEN 100 * IntVal(ip) + 10 * d1 + d2 + up
        ELSE -1

DecimalQuantize(text) ==
    The({ LET neg == t # <<>> /\ t[1] = "-"
              mag == The({Magnitude(body) :
                          body \in {IF t # <<>> /\ t[1] \in {"-", "+"} THEN Tail(t) ELSE t}})
          IN  IF mag >= 0
              THEN [ok |-> TRUE, cents |-> IF neg THEN -mag ELSE mag]
              ELSE [ok |-> FALSE, cents |-> 0]
        : t \in {Strip(text)} })

\* parse_amount with an unparseable text coerced to 0
parse_amount_coerced(value) ==
    IF Strip(value) = <<>>
    THEN [ok |-> TRUE, cents |-> 0]
    ELSE [ok |-> TRUE, cents |-> DecimalQuantize(Replace(value, ",", ".")).cents]

\* parse_amount: 0 for empty values, otherwise the quantized Decimal; ok = FALSE
\* stands for the decimal.InvalidOperation the constructor raises.
parse_amount(value) ==
    IF Strip(value) = <<>>
    THEN [ok |-> TRUE, cents |-> 0]
    ELSE DecimalQuantize(Replace(value, ",", "."))

(***************************************************************************)
(* parse_date: datetime.strptime(date_str[:10], "%Y-%m-%d"), None on       *)
(* blank input or ValueError.                                              *)
(***************************************************************************)
DateSliceLen == 10

NoDate == [none |-> TRUE, y |-> 0, m |-> 0, d |-> 0]

IsLeap(y) == ((y % 4) = 0 /\ (y % 100) # 0) \/ (y % 400) = 0

DaysInMonth(y, m) ==
    IF m = 2 THEN (IF IsLeap(y) THEN 29 ELSE 28)
    ELSE IF m \in {4, 6, 9, 11} THEN 30 ELSE 31

\* the three fields of "%Y-%m-%d" in text s
DateFields(s) ==
    LET dashes == Positions(s, "-")
        p1 == CHOOSE i \in dashes : \A j \in dashes : i <= j
        p2 == CHOOSE i \in dashes : \A j \in dashes : j <= i
    IN  IF Cardinality(dashes) = 2
        THEN <<SubSeq(s, 1, p1 - 1), SubSeq(s, p1 + 1, p2 - 1), SubSeq(s, p2 + 1, Len(s))>>
        ELSE <<>>

strptime(s) ==
    The({ IF /\ f # <<>>
             /\ AllDigits(f[1]) /\ AllDigits(f[2]) /\ AllDigits(f[3])
             /\ Len(f[1]) = 4 /\ Len(f[2]) \in 1..2 /\ Len(f[3]) \in 1..2
          THEN The({ IF y >= 1 /\ m \in 1..12 /\ d >= 1 /\ d <= DaysInMonth(y, m)
                     THEN [none |-> FALSE, y |-> y, m |-> m, d |-> d]
                     ELSE NoDate
                   : y \in {IntVal(f[1])}, m \in {IntVal(f[2])}, d \in {IntVal(f[3])} })
          ELSE NoDate
        : f \in {DateFields(s)} })

parse_date(date_str) ==
    IF Strip(date_str) = <<>> THEN NoDate
    ELSE The({strptime(s) : s \in {Prefix(date_str, DateSliceLen)}})

\* is_reduced_rate
is_reduced_rate(tax_name) ==
    Contains(tax_name, <<"5", ",", "5">>) \/ Contains(tax_name, <<"5", ".", "5">>)

(***************************************************************************)
(* Configuration.                                                          *)
(***************************************************************************)
JOURNAL == <<"V", "T", "2">>

ACCOUNTS ==
    [clients  |-> <<"411200000", "Clients">>,
     tva_20   |-> <<"445712000", "TVA 20%">>,
     tva_55   |-> <<"445710500", "TVA 5,5%">>,
     sales_55 |-> <<"707000012", "Ventes produits finis TVA reduite">>,
     sales_20 |-> <<"707000011", "Ventes marchandises TVA normale">>,
     shipping |-> <<"708500011", "Ports et frais accessoires factures">>]

Columns ==
    {"Name", "Paid at", "Created at", "Total", "Shipping",
     "Tax 1 Name", "Tax 1 Value", "Tax 2 Name", "Tax 2 Value"}

(***************************************************************************)
(* read_orders                                                             *)
(***************************************************************************)
\* row.get(col, default): csv.DictReader gives every row the header's columns
Get(row, col, default) == IF col \in DOMAIN row THEN row[col] ELSE default

\* row.get("Paid at") or row.get("Created at", ""): the paid text unless it is
\* None (no such column) or the empty string
PaidOrCreated(row) ==
    IF "Paid at" \in DOMAIN row /\ row["Paid at"] # <<>>
    THEN row["Paid at"]
    ELSE Get(row, "Created at", <<>>)

\* the name/value pairs of the loop "for i in [1, 2]"
TaxPairs(row) ==
    <<[name  |-> Get(row, "Tax 1 Name", <<>>),
       value |-> parse_amount(Get(row, "Tax 1 Value", <<"0">>))],
      [name  |-> Get(row, "Tax 2 Name", <<>>),
       value |-> parse_amount(Get(row, "Tax 2 Value", <<"0">>))]>>

\* AddTo20 without the test "tax_value > 0"
AddTo20_NoSignTest(pair) == IF ~is_reduced_rate(pair.name) THEN pair.value.cents ELSE 0

\* what one pass of the loop adds to tva_20 and to tva_55
AddTo20(pair) ==
    IF ~is_reduced_rate(pair.name) /\ pair.value.cents > 0 THEN pair.value.cents ELSE 0

AddTo55(pair) == IF is_reduced_rate(pair.name) THEN pair.value.cents ELSE 0

\* the record built for a row that is not skipped; ok = FALSE when one of the
\* four parse_amount calls raises
ExtractRecord(row) ==
    The({ [ok       |-> pairs[1].value.ok /\ pairs[2].value.ok /\ total.ok /\ shipping.ok,
           date     |-> parse_date(PaidOrCreated(row)),
           total    |-> total.cents,
           shipping |-> shipping.cents,
           tva_20   |-> AddTo20(pairs[1]) + AddTo20(pairs[2]),
           tva_55   |-> AddTo55(pairs[1]) + AddTo55(pairs[2])]
        : pairs    \in {TaxPairs(row)},
          total    \in {parse_amount(Get(row, "Total", <<"0">>))},
          shipping \in {parse_amount(Get(row, "Shipping", <<"0">>))} })

OrderOf(rec) ==
    [date |-> rec.date, total |-> rec.total, shipping |-> rec.shipping,
     tva_20 |-> rec.tva_20, tva_55 |-> rec.tva_55]

\* IsSkipped without the test "order_name in orders"
IsSkipped_BlankOnly(order_name, seen) == order_name = <<>>

\* "if not order_name or order_name in orders: continue"
IsSkipped(order_name, seen) == order_name = <<>> \/ order_name \in seen

NoOrders == [n \in {} |-> 0]

\* the loop over the rows; raised = TRUE when parse_amount raised on a row
RECURSIVE ReadFrom(_, _)
ReadFrom(rs, acc) ==
    IF rs = <<>> THEN [raised |-> FALSE, orders |-> acc]
    ELSE The({ IF IsSkipped(order_name, DOMAIN seen) THEN ReadFrom(rest, seen)
               ELSE The({ IF ~rec.ok THEN [raised |-> TRUE, orders |-> seen]
                          ELSE ReadFrom(rest, (order_name :> OrderOf(rec)) @@ seen)
                        : rec \in {ExtractRecord(row)} })
             : row \in {Head(rs)}, rest \in {Tail(rs)}, seen \in {acc},
               order_name \in {Strip(Get(Head(rs), "Name", <<>>))} })

read_orders(rs) == ReadFrom(rs, NoOrders)

(***************************************************************************)
(* aggregate_by_date                                                       *)
(***************************************************************************)
DayOf(date) == [y |-> date.y, m |-> date.m, d |-> date.d]

ZeroDay == [total |-> 0, shipping |-> 0, tva_20 |-> 0, tva_55 |-> 0]

\* "if order["date"]": a datetime is always true, None is false
HasDate(order) == ~order.date.none

\* AddOrder assigning the order's amounts instead of adding them
AddOrder_Overwrite(acc, order) ==
    (DayOf(order.date) :>
        [total |-> order.total, shipping |-> order.shipping,
         tva_20 |-> order.tva_20, tva_55 |-> order.tva_55]) @@ acc

\* daily[day][key] += order[key] for the four keys
AddOrder(acc, order) ==
    LET day == DayOf(order.date)
        old == IF day \in DOMAIN acc THEN acc[day] ELSE ZeroDay
        new == [total    |-> old.total + order.total,
                shipping |-> old.shipping + order.shipping,
                tva_20   |-> old.tva_20 + order.tva_20,
                tva_55   |-> old.tva_55 + order.tva_55]
    IN  (day :> new) @@ acc

RECURSIVE AggregateFrom(_, _, _)
AggregateFrom(names, ords, acc) ==
    IF names = {} THEN acc
    ELSE LET n == CHOOSE x \in names : TRUE
         IN  AggregateFrom(names \ {n}, ords,
                           IF HasDate(ords[n]) THEN AddOrder(acc, ords[n]) ELSE acc)

NoDays == [x \in {} |-> 0]

aggregate_by_date(ords) == AggregateFrom(DOMAIN ords, ords, NoDays)

(***************************************************************************)
(* calculate_ht                                                            *)
(***************************************************************************)
\* (n / d).quantize(Decimal("0.01"), ROUND_HALF_UP) on integers: n / d rounded
\* to the nearest integer, ties away from zero (d > 0)
RoundHalfUpDiv(n, d) ==
    LET mag == (2 * Abs(n) + d) \div (2 * d) IN IF n < 0 THEN -mag ELSE mag

\* Reconcile leaving sales_20 as it is
Reconcile_Dropped(sales_20, diff) == sales_20

\* sales_20 += diff when diff # 0
Reconcile(sales_20, diff) == IF diff # 0 THEN sales_20 + diff ELSE sales_20

calculate_ht(total, shipping, tva_20, tva_55) ==
    LET shipping_ht    == IF shipping # 0 THEN RoundHalfUpDiv(shipping * 100, 120) ELSE 0
        shipping_tva   == shipping - shipping_ht
        product_tva_20 == Max(0, tva_20 - shipping_tva)
        sales_20       == IF product_tva_20 # 0
                          THEN RoundHalfUpDiv(product_tva_20 * 100, 20) ELSE 0
        sales_55       == IF tva_55 # 0 THEN RoundHalfUpDiv(tva_55 * 1000, 55) ELSE 0
        credits        == tva_20 + tva_55 + sales_20 + sales_55 + shipping_ht
        diff           == total - credits
    IN  [tva_20 |-> tva_20, tva_55 |-> tva_55,
         sales_20 |-> Reconcile(sales_20, diff),
         sales_55 |-> sales_55, shipping |-> shipping_ht]

(***************************************************************************)
(* generate_entries                                                        *)
(***************************************************************************)
\* two-digit, zero-padded field of strftime
Digit2(n) == <<Digits[((n \div 10) % 10) + 1], Digits[(n % 10) + 1]>>

\* dt.strftime("%d%m%y")
FormatDateStr(day) == Digit2(day.d) \o Digit2(day.m) \o Digit2(day.y % 100)

\* FormatPiece with the format '%y%m'
FormatPiece_YearMonth(day) == JOURNAL \o Digit2(day.y % 100) \o Digit2(day.m)

\* f"{JOURNAL}{dt.strftime('%y%m%d')}"
FormatPiece(day) == JOURNAL \o Digit2(day.y % 100) \o Digit2(day.m) \o Digit2(day.d)

\* date ordering used by sorted(daily_data.keys())
DateKey(day) == day.y * 10000 + day.m * 100 + day.d

\* SortedDates with the dates in descending order
RECURSIVE SortedDates_Descending(_)
SortedDates_Descending(days) ==
    IF days = {} THEN <<>>
    ELSE LET first == CHOOSE x \in days : \A z \in days : DateKey(x) >= DateKey(z)
         IN  <<first>> \o SortedDates_Descending(days \ {first})

RECURSIVE SortedDates(_)
SortedDates(days) ==
    IF days = {} THEN <<>>
    ELSE LET first == CHOOSE x \in days : \A z \in days : DateKey(x) <= DateKey(z)
         IN  <<first>> \o SortedDates(days \ {first})

\* add_entry: debit and credit are <<>> for the blank string "", <<amount>> otherwise
add_entry(day, account_key, debit, credit) ==
    [compte      |-> ACCOUNTS[account_key][1],
     journal     |-> JOURNAL,
     date        |-> FormatDateStr(day),
     commentaire |-> ACCOUNTS[account_key][2],
     debit       |-> debit,
     credit      |-> credit,
     piece       |-> FormatPiece(day),
     echeance    |-> <<>>,
     lettrage    |-> <<>>]

CreditIf(day, account_key, amount) ==
    IF amount > 0 THEN <<add_entry(day, account_key, <<>>, <<amount>>)>> ELSE <<>>

\* the lines appended for one date
DayEntries(day, data) ==
    LET amounts == calculate_ht(data.total, data.shipping, data.tva_20, data.tva_55)
    IN  <<add_entry(day, "clients", <<data.total>>, <<>>)>>
        \o CreditIf(day, "tva_20", amounts.tva_20)
        \o CreditIf(day, "tva_55", amounts.tva_55)
        \o CreditIf(day, "sales_55", amounts.sales_55)
        \o CreditIf(day, "sales_20", amounts.sales_20)
        \o CreditIf(day, "shipping", amounts.shipping)

RECURSIVE EntriesFor(_, _)
EntriesFor(dates, daily_data) ==
    IF dates = <<>> THEN <<>>
    ELSE DayEntries(Head(dates), daily_data[Head(dates)]) \o EntriesFor(Tail(dates), daily_data)

generate_entries(daily_data) == EntriesFor(SortedDates(DOMAIN daily_data), daily_data)

(***************************************************************************)
(* utils.read_orders: the pandas pipeline behind the Streamlit page.       *)
(* A float is written as an integer number of thousandths: the amount      *)
(* texts of the modelled files carry at most three decimals.               *)
(***************************************************************************)
\* the columns read_orders indexes with df[...]: a missing one is a KeyError
UtilsColumns ==
    {"Name", "Paid at", "Created at", "Total", "Shipping", "Tax 1 Value", "Tax 2 Value"}

\* pd.read_csv turns an empty field into NaN
IsNaN(text) == text = <<>>

\* dtype of a column after pd.read_csv: object (text) when the file has no row
\* or some row holds a value, float64 when every row is NaN; the identifiers
\* and timestamps of the modelled files are never numerals
IsTextColumn(rs, col) == rs = <<>> \/ \E i \in 1..Len(rs) : ~IsNaN(rs[i][col])

\* digits, optionally one ".", digits: the thousandths of the magnitude, or -1
Thousandths(body) ==
    LET dots == Positions(body, ".")
        dot  == IF dots = {} THEN Len(body) + 1 ELSE CHOOSE i \in dots : TRUE
        ip   == SubSeq(body, 1, dot - 1)
        fp   == SubSeq(body, dot + 1, Len(body))
        d1   == IF Len(fp) >= 1 THEN DigitVal(fp[1]) ELSE 0
        d2   == IF Len(fp) >= 2 THEN DigitVal(fp[2]) ELSE 0
        d3   == IF Len(fp) >= 3 THEN DigitVal(fp[3]) ELSE 0
    IN  IF /\ Cardinality(dots) <= 1
           /\ AllDigits(ip) /\ AllDigits(fp)
           /\ Len(ip) + Len(fp) >= 1
        THEN 1000 * IntVal(ip) + 100 * d1 + 10 * d2 + d3
        ELSE -1

\* pd.to_numeric(df[col].astype(str).str.replace(",", "."), errors="coerce")
\* .fillna(0): NaN and every text that is not a number become 0
to_numeric(text) ==
    The({ LET neg == t # <<>> /\ t[1] = "-"
              mag == The({Thousandths(body) :
                          body \in {IF t # <<>> /\ t[1] \in {"-", "+"} THEN Tail(t) ELSE t}})
          IN  IF IsNaN(text) \/ mag < 0 THEN 0
              ELSE IF neg THEN -mag ELSE mag
        : t \in {Replace(text, ",", ".")} })

\* df["Paid at"].fillna(df["Created at"])
DateCol(row) == IF IsNaN(row["Paid at"]) THEN row["Created at"] ELSE row["Paid at"]

\* pd.to_datetime(date_col.str[:10], format="%Y-%m-%d", errors="coerce"): NaT
\* for NaN and for a text that is not a date
to_datetime(text) ==
    IF IsNaN(text) THEN NoDate
    ELSE The({strptime(s) : s \in {Prefix(text, DateSliceLen)}})

\* df[name].astype(str).str.contains("5[,.]5", na=False, regex=True); a column
\* the file does not have adds nothing
IsReducedCol(row, col) == col \in DOMAIN row /\ is_reduced_rate(row[col])

\* what the loop "for i in [1, 2]" adds for one tax column pair
UtilsTva55(row, name_col, value) == IF IsReducedCol(row, name_col) THEN value ELSE 0

UtilsTva20(row, name_col, value) ==
    IF ~IsReducedCol(row, name_col) /\ value > 0 THEN value ELSE 0

\* the row of the returned frame for one row of the file
FrameRow(row) ==
    The({ [Name     |-> row["Name"],
           date     |-> to_datetime(DateCol(row)),
           total    |-> to_numeric(row["Total"]),
           shipping |-> to_numeric(row["Shipping"]),
           tva_20   |-> UtilsTva20(row, "Tax 1 Name", v1) + UtilsTva20(row, "Tax 2 Name", v2),
           tva_55   |-> UtilsTva55(row, "Tax 1 Name", v1) + UtilsTva55(row, "Tax 2 Name", v2)]
        : v1 \in {to_numeric(row["Tax 1 Value"])},
          v2 \in {to_numeric(row["Tax 2 Value"])} })

\* df["Name"].notna() & (df["Name"].str.strip() != "")
HasName(row) == ~IsNaN(row["Name"]) /\ Strip(row["Name"]) # <<>>

\* drop_duplicates(subset="Name", keep="first"): the rows with a name, each
\* name (as written in the file) kept at its first row
RECURSIVE DropDuplicates(_, _)
DropDuplicates(rs, seen) ==
    IF rs = <<>> THEN <<>>
    ELSE IF ~HasName(Head(rs)) \/ Head(rs)["Name"] \in seen
         THEN DropDuplicates(Tail(rs), seen)
         ELSE <<Head(rs)>> \o DropDuplicates(Tail(rs), seen \cup {Head(rs)["Name"]})

\* dtype of date_col: fillna leaves a float64 "Paid at" column as it is when
\* no kept row is filled with text
DateColIsText(rs, kept) ==
    \/ IsTextColumn(rs, "Paid at")
    \/ kept # <<>> /\ IsTextColumn(rs, "Created at")

\* raised = TRUE for the KeyError of a missing column and for the
\* AttributeError of the .str accessor on a column that holds no text
utils_read_orders(h, rs) ==
    IF ~(UtilsColumns \subseteq h) THEN [raised |-> TRUE, frame |-> <<>>]
    ELSE IF ~IsTextColumn(rs, "Name") THEN [raised |-> TRUE, frame |-> <<>>]
    ELSE The({ IF ~DateColIsText(rs, kept) THEN [raised |-> TRUE, frame |-> <<>>]
               ELSE [raised |-> FALSE, frame |-> [i \in 1..Len(kept) |-> FrameRow(kept[i])]]
             : kept \in {DropDuplicates(rs, {})} })

(***************************************************************************)
(* write_csv and main                                                      *)
(***************************************************************************)
NotWritten == [written |-> FALSE, lines |-> <<>>]

\* writer.writeheader(); writer.writerows(entries)
write_csv(es) == [written |-> TRUE, lines |-> es]

\* orders = read_orders(...): an exception raised by parse_amount leaves main
ReadOrders ==
    /\ pc = "read"
    /\ \E res \in {read_orders(rows)} :
           IF res.raised
           THEN /\ pc' = "failed"
                /\ UNCHANGED orders
           ELSE /\ pc' = "aggregate"
                /\ orders' = res.orders
    /\ UNCHANGED <<header, rows, daily, entries, output, streamlit>>

\* daily = aggregate_by_date(orders)
AggregateByDate ==
    /\ pc = "aggregate"
    /\ daily' = aggregate_by_date(orders)
    /\ pc' = "generate"
    /\ UNCHANGED <<header, rows, orders, entries, output, streamlit>>

\* entries = generate_entries(daily)
GenerateEntries ==
    /\ pc = "generate"
    /\ entries' = generate_entries(daily)
    /\ pc' = "write"
    /\ UNCHANGED <<header, rows, orders, daily, output, streamlit>>

\* write_csv(entries, output_path), then the summary is printed
WriteCsv ==
    /\ pc = "write"
    /\ output' = write_csv(entries)
    /\ pc' = "done"
    /\ UNCHANGED <<header, rows, orders, daily, entries, streamlit>>

\* utils.read_orders has not been called on the file yet
NotRead == [state |-> "idle", frame |-> <<>>]

\* utils.read_orders on the same file: it returns the frame or raises.  The two
\* runs share nothing but the file, so their order is immaterial: the file is
\* given to utils.read_orders once the command-line run has ended.
UtilsReadOrders ==
    /\ pc \in {"failed", "done"}
    /\ streamlit.state = "idle"
    /\ \E res \in {utils_read_orders(header, rows)} :
           streamlit' = [state |-> IF res.raised THEN "failed" ELSE "read",
                         frame |-> res.frame]
    /\ UNCHANGED <<header, rows, pc, orders, daily, entries, output>>

Next == ReadOrders \/ AggregateByDate \/ GenerateEntries \/ WriteCsv \/ UtilsReadOrders

(***************************************************************************)
(* Input files.  A file is a header (the columns present) and at most      *)
(* MaxRows rows, each a mapping from the header's columns to text.         *)
(***************************************************************************)
MkRow(name, paid, created, total, shipping, t1n, t1v, t2n, t2v) ==
    [c \in Columns |->
        CASE c = "Name"        -> name
          [] c = "Paid at"     -> paid
          [] c = "Created at"  -> created
          [] c = "Total"       -> total
          [] c = "Shipping"    -> shipping
          [] c = "Tax 1 Name"  -> t1n
          [] c = "Tax 1 Value" -> t1v
          [] c = "Tax 2 Name"  -> t2n
          [] c = "Tax 2 Value" -> t2v]

\* the row as csv.DictReader yields it under header h
Under(h, row) == [c \in h |-> row[c]]

SeqsUpTo(S, n) == UNION {[1..k -> S] : k \in 0..n}

Start(h, rs) ==
    /\ header = h
    /\ rows = rs
    /\ pc = "read"
    /\ orders = NoOrders
    /\ daily = NoDays
    /\ entries = <<>>
    /\ output = NotWritten
    /\ streamlit = NotRead

Blank == <<>>

Space == <<" ">>

NameA == <<"A">>

NameASpace == <<"A", " ">>

NameB == <<"B">>

Stamp20251020 == <<"2", "0", "2", "5", "-", "1", "0", "-", "2", "0", " ", "1", "8", ":", "1", "3", ":", "2", "0", " ", "+", "0", "2", "0", "0">>

Stamp20251019 == <<"2", "0", "2", "5", "-", "1", "0", "-", "1", "9", " ", "0", "9", ":", "0", "5", ":", "0", "0", " ", "+", "0", "2", "0", "0">>

Stamp19251020 == <<"1", "9", "2", "5", "-", "1", "0", "-", "2", "0", " ", "0", "9", ":", "0", "5", ":", "0", "0", " ", "+", "0", "2", "0", "0">>

\* no such day
Stamp20250230 == <<"2", "0", "2", "5", "-", "0", "2", "-", "3", "0", " ", "1", "0", ":", "0", "0", ":", "0", "0", " ", "+", "0", "2", "0", "0">>

TVA20 == <<"T", "V", "A", " ", "2", "0", "%">>

TVA55Comma == <<"T", "V", "A", " ", "5", ",", "5", "%">>

TVA55Dot == <<"T", "V", "A", " ", "5", ".", "5", "%">>

\* Files whose rows vary in identifier and timestamps.
IdNames == {Space, NameA, NameASpace, NameB}

IdPaid == {Blank, Space, Stamp20251020}

\* the created timestamp, amounts and taxes an order's row carries
IdDetails ==
    {[created |-> Stamp20251019, total |-> <<"1", "2", "0", ".", "0", "0">>, shipping |-> Blank,
      t1n |-> TVA20, t1v |-> <<"2", "0", ".", "0", "0">>, t2n |-> Blank, t2v |-> Blank],
     [created |-> Stamp19251020, total |-> <<"1", "6", ",", "5", "5">>, shipping |-> <<"6">>,
      t1n |-> TVA55Comma, t1v |-> <<"0", ",", "5", "5">>, t2n |-> TVA20, t2v |-> <<"1", ".", "0", "0">>],
     [created |-> Stamp20250230, total |-> <<"1", "0", ".", "5", "5">>, shipping |-> Blank,
      t1n |-> TVA55Dot, t1v |-> <<"0", ".", "5", "5">>, t2n |-> Blank, t2v |-> Blank]}

IdRows ==
    {MkRow(n, p, a.created, a.total, a.shipping, a.t1n, a.t1v, a.t2n, a.t2v) :
        n \in IdNames, p \in IdPaid, a \in IdDetails}

HeaderSet == {Columns, Columns \ {"Name"}}

Init ==
    \E h \in HeaderSet :
        \E rs \in SeqsUpTo({Under(h, r) : r \in IdRows}, MaxRows) : Start(h, rs)

Spec == Init /\ [][Next]_vars

\* Files whose rows vary in the texts of the amount and tax columns.
MaxAmtRows == 1

AmtNames == {NameA, Space}

AmtTotals ==
    {[total |-> <<"1", "2", "0", ".", "0", "0">>, shipping |-> Blank],
     [total |-> <<"a", "b", "c">>, shipping |-> Blank],
     [total |-> <<"1", "2", "0", ".", "0", "0">>, shipping |-> <<"1", ",", "2", "3", "4", ".", "5", "6">>]}

TaxNames == {TVA20, TVA55Comma, TVA55Dot}

TaxValues == {<<"2", "0", ".", "0", "0">>, <<"0">>, <<"-", "1", ".", "0", "0">>, <<"x">>}

Tax2Pairs ==
    {[name |-> Blank, value |-> Blank],
     [name |-> TVA55Comma, value |-> <<"0", ",", "5", "5">>],
     [name |-> TVA20, value |-> <<"1", ".", "0", "0", "5">>],
     [name |-> TVA55Dot, value |-> <<"1", ".", "2", ".", "3">>]}

AmtRows ==
    {MkRow(n, Stamp20251020, Blank, t.total, t.shipping, t1n, t1v, p2.name, p2.value) :
        n \in AmtNames, t \in AmtTotals, t1n \in TaxNames, t1v \in TaxValues,
        p2 \in Tax2Pairs}

InitAmt == \E rs \in SeqsUpTo(AmtRows, MaxAmtRows) : Start(Columns, rs)

SpecAmt == InitAmt /\ [][Next]_vars

\* Files of one order whose amounts range over small numbers of cents.
RECURSIVE IntToText(_)
IntToText(n) ==
    IF n < 10 THEN <<Digits[n + 1]>> ELSE IntToText(n \div 10) \o <<Digits[(n % 10) + 1]>>

CentsToText(c) ==
    (IF c < 0 THEN <<"-">> ELSE <<>>)
    \o IntToText(Abs(c) \div 100) \o <<".">> \o Digit2(Abs(c) % 100)

CentsSet == (-1..MaxCents) \cup {55, 1055, 2000, 12000}

InitHT ==
    \E t \in CentsSet, s \in CentsSet, a \in CentsSet, b \in CentsSet :
        Start(Columns, <<MkRow(NameA, Stamp20251020, Blank, CentsToText(t), CentsToText(s),
                               TVA20, CentsToText(a), TVA55Comma, CentsToText(b))>>)

SpecHT == InitHT /\ [][Next]_vars

(***************************************************************************)
(* Helpers of the properties.                                              *)
(***************************************************************************)
AmountColumns == {"Total", "Shipping", "Tax 1 Value", "Tax 2 Value"}

ReadDone == pc \in {"aggregate", "generate", "write", "done"}

AggregateDone == pc \in {"generate", "write", "done"}

GenerateDone == pc \in {"write", "done"}

\* the order identifier of a row: its Name, trimmed ("" without a Name column)
IdOf(row) == Strip(Get(row, "Name", <<>>))

\* the first row carrying identifier n
FirstIndex(n) ==
    CHOOSE i \in 1..Len(rows) : IdOf(rows[i]) = n /\ \A j \in 1..(i - 1) : IdOf(rows[j]) # n

\* rows read_orders does not skip: non-blank identifier, not seen before
IsExtracted(i) ==
    IdOf(rows[i]) # <<>> /\ \A j \in 1..(i - 1) : IdOf(rows[j]) # IdOf(rows[i])

RECURSIVE SumSeq(_)
SumSeq(q) == IF q = <<>> THEN 0 ELSE Head(q) + SumSeq(Tail(q))

RECURSIVE SumOver(_, _, _)
SumOver(names, ords, field) ==
    IF names = {} THEN 0
    ELSE LET n == CHOOSE x \in names : TRUE
         IN  ords[n][field] + SumOver(names \ {n}, ords, field)

RECURSIVE Flatten(_)
Flatten(qq) == IF qq = <<>> THEN <<>> ELSE Head(qq) \o Flatten(Tail(qq))

IsClientsLine(e) == e.compte = ACCOUNTS["clients"][1]

\* calendar order, field by field
DateBefore(a, b) ==
    \/ a.y < b.y
    \/ a.y = b.y /\ a.m < b.m
    \/ a.y = b.y /\ a.m = b.m /\ a.d < b.d

\* the k-th date of daily in calendar order
DayAt(k) ==
    CHOOSE day \in DOMAIN daily :
        Cardinality({e \in DOMAIN daily : DateBefore(e, day)}) = k - 1

\* the positions in entries of the lines of the k-th date: each date opens
\* with its clients line
BlockOf(k) ==
    LET starts == {i \in 1..Len(entries) : IsClientsLine(entries[i])}
        first  == CHOOSE i \in starts : Cardinality({j \in starts : j < i}) = k - 1
        later  == {j \in starts : j > first}
        last   == IF later = {} THEN Len(entries)
                  ELSE (CHOOSE j \in later : \A z \in later : j <= z) - 1
    IN  first..last

NumBlocks == Cardinality({i \in 1..Len(entries) : IsClientsLine(entries[i])})

(***************************************************************************)
(* C1.  Balance invariant: for every aggregated day with non-negative      *)
(* total, shipping, tax_standard and tax_reduced, the debit of the clients *)
(* line equals the sum of the credits of the credit lines emitted for the  *)
(* day's piece.  The code violates it: a standard-sales amount made        *)
(* negative by the reconciliation is not emitted.                          *)
(***************************************************************************)
NonNegative(data) ==
    data.total >= 0 /\ data.shipping >= 0 /\ data.tva_20 >= 0 /\ data.tva_55 >= 0

DebitTotal(piece) ==
    SumSeq(Flatten([i \in 1..Len(entries) |->
        IF entries[i].piece = piece THEN entries[i].debit ELSE <<>>]))

CreditTotal(piece) ==
    SumSeq(Flatten([i \in 1..Len(entries) |->
        IF entries[i].piece = piece THEN entries[i].credit ELSE <<>>]))

\* C1: once the entries are generated, every day with non-negative aggregates has
\* the debit of its piece equal to the sum of the credits of its piece.
C1_BalanceInvariant ==
    GenerateDone =>
        \A day \in DOMAIN daily :
            NonNegative(daily[day]) =>
                DebitTotal(FormatPiece(day)) = CreditTotal(FormatPiece(day))

(***************************************************************************)
(* C2.  Original claim: a malformed monetary text in an amount column of   *)
(* any input row makes the run fail; read_orders never completes and no    *)
(* journal is produced.                                                    *)
(* Amended: this holds for the rows read_orders extracts (identifier not   *)
(* blank after trimming and not carried by an earlier row); the amount     *)
(* columns of skipped rows are never parsed.                               *)
(***************************************************************************)
MalformedTexts ==
    {<<"a", "b", "c">>, <<"x">>, <<"1", ",", "2", "3", "4", ".", "5", "6">>,
     <<"1", ".", "2", ".", "3">>}

HasMalformedAmount(row) == \E c \in AmountColumns \cap DOMAIN row : row[c] \in MalformedTexts

RunFailed == pc = "failed" /\ orders = NoOrders /\ entries = <<>> /\ ~output.written

C3_FirstRowPerIdentifier ==
    ReadDone =>
        /\ DOMAIN orders = {IdOf(rows[i]) : i \in 1..Len(rows)} \ {<<>>}
        /\ \A n \in DOMAIN orders :
               orders[n] = OrderOf(ExtractRecord(rows[FirstIndex(n)]))

C3_Witness ==
    /\ ReadDone
    /\ \E i, j \in 1..Len(rows) :
           /\ i < j
           /\ IdOf(rows[i]) = IdOf(rows[j])
           /\ IdOf(rows[i]) \in DOMAIN orders
           /\ rows[i]["Name"] # rows[j]["Name"]
           /\ ExtractRecord(rows[i]) # ExtractRecord(rows[j])

(***************************************************************************)
(* C4.  Date selection: an extracted order whose paid timestamp is absent  *)
(* or blank and whose created timestamp is valid gets the created date and *)
(* is included in that date's aggregate.  The code violates it for a paid  *)
(* timestamp made of whitespace: only the empty text falls back.           *)
(***************************************************************************)
PaidIsBlank(row) == "Paid at" \notin DOMAIN row \/ Strip(row["Paid at"]) = <<>>

CreatedDate(row) == parse_date(Get(row, "Created at", <<>>))

\* C4: an extracted order with a blank or absent paid timestamp and a valid created
\* timestamp has the created date, and that date has an aggregate.
C4_BlankPaidFallsBackToCreated ==
    ReadDone =>
        \A n \in DOMAIN orders :
            LET row == rows[FirstIndex(n)]
            IN  (PaidIsBlank(row) /\ ~CreatedDate(row).none) =>
                    /\ orders[n].date = CreatedDate(row)
                    /\ AggregateDone => DayOf(CreatedDate(row)) \in DOMAIN daily

(***************************************************************************)
(* C5.  Tax classification: of the two name/value pairs of an extracted    *)
(* row, tax_reduced sums the values whose name contains "5.5" or "5,5" and *)
(* tax_standard sums the strictly positive values of the other pairs.      *)
(***************************************************************************)
ReducedNames == {TVA55Comma, TVA55Dot}

PairValue(row, i) ==
    parse_amount(IF i = 1 THEN row["Tax 1 Value"] ELSE row["Tax 2 Value"]).cents

PairIsReduced(row, i) == (IF i = 1 THEN row["Tax 1 Name"] ELSE row["Tax 2 Name"]) \in ReducedNames

ReducedPart(row, i) == IF PairIsReduced(row, i) THEN PairValue(row, i) ELSE 0

StandardPart(row, i) ==
    IF ~PairIsReduced(row, i) /\ PairValue(row, i) > 0 THEN PairValue(row, i) ELSE 0

\* C5: tva_55 and tva_20 of every record are the sums selected by the rule from the
\* two tax pairs of its row.
C5_TaxClassification ==
    ReadDone =>
        \A n \in DOMAIN orders :
            LET row == rows[FirstIndex(n)]
            IN  /\ orders[n].tva_55 = ReducedPart(row, 1) + ReducedPart(row, 2)
                /\ orders[n].tva_20 = StandardPart(row, 1) + StandardPart(row, 2)

C5_Witness ==
    /\ ReadDone
    /\ \E n \in DOMAIN orders :
           LET row == rows[FirstIndex(n)]
           IN  /\ ~PairIsReduced(row, 1) /\ PairValue(row, 1) < 0
               /\ PairIsReduced(row, 2) /\ PairValue(row, 2) > 0
               /\ orders[n].tva_20 = 0 /\ orders[n].tva_55 = PairValue(row, 2)

(***************************************************************************)
(* C6.  Daily aggregation: one aggregate for each calendar date carried by *)
(* at least one order record, whose four fields are the sums of those      *)
(* fields over exactly the records with that date; records without a date  *)
(* contribute to no aggregate and create none.                             *)
(***************************************************************************)
OrdersOn(day) == {n \in DOMAIN orders : ~orders[n].date.none /\ DayOf(orders[n].date) = day}

\* C6: after aggregate_by_date the keys of daily are the dates of the dated orders
\* and every field of an aggregate is the sum of that field over the orders of the date.
C6_DailyAggregation ==
    AggregateDone =>
        /\ DOMAIN daily = {DayOf(orders[n].date) : n \in {x \in DOMAIN orders : ~orders[x].date.none}}
        /\ \A day \in DOMAIN daily :
               \A f \in {"total", "shipping", "tva_20", "tva_55"} :
                   daily[day][f] = SumOver(OrdersOn(day), orders, f)

C6_Witness ==
    /\ AggregateDone
    /\ \E day \in DOMAIN daily :
           /\ Cardinality(OrdersOn(day)) >= 2
           /\ \E n \in OrdersOn(day) : daily[day].total > orders[n].total

(***************************************************************************)
(* C7.  Output ordering: the lines of an earlier date precede those of a   *)
(* later date; within a day the order is clients debit (always present,    *)
(* amount = total), standard-tax credit, reduced-tax credit, reduced-sales *)
(* credit, standard-sales credit, shipping credit, each credit line        *)
(* present exactly when its reconciled amount is strictly positive.        *)
(***************************************************************************)
CreditKinds == <<"tva_20", "tva_55", "sales_55", "sales_20", "shipping">>

ExpectedLines(day) ==
    LET data    == daily[day]
        amounts == calculate_ht(data.total, data.shipping, data.tva_20, data.tva_55)
        present == SelectSeq(CreditKinds, LAMBDA k : amounts[k] > 0)
    IN  <<[compte |-> ACCOUNTS["clients"][1], debit |-> <<data.total>>, credit |-> <<>>]>>
        \o [i \in 1..Len(present) |->
               [compte |-> ACCOUNTS[present[i]][1], debit |-> <<>>,
                credit |-> <<amounts[present[i]]>>]]

LineOf(e) == [compte |-> e.compte, debit |-> e.debit, credit |-> e.credit]

\* C7: the generated lines are, date after date in calendar order, the clients debit
\* followed by the strictly positive credits in the fixed account order.
C7_OutputOrdering ==
    GenerateDone =>
        [i \in 1..Len(entries) |-> LineOf(entries[i])]
            = Flatten([k \in 1..Cardinality(DOMAIN daily) |-> ExpectedLines(DayAt(k))])

C7_Witness ==
    /\ GenerateDone
    /\ Cardinality(DOMAIN daily) >= 2
    /\ Len(rows) >= 2
    /\ ~parse_date(PaidOrCreated(rows[1])).none
    /\ ~parse_date(PaidOrCreated(rows[2])).none
    /\ DateBefore(parse_date(PaidOrCreated(rows[2])), parse_date(PaidOrCreated(rows[1])))
    /\ \E i \in 1..Len(entries) : entries[i].compte = ACCOUNTS["shipping"][1]

(***************************************************************************)
(* C8.  Input-shape error: when no row has the order-identifier column and *)
(* the file has rows, the run ends in a fatal error and does not complete  *)
(* with an empty journal.  The command-line pipeline violates it: every    *)
(* row is skipped and an empty journal is written.                         *)
(***************************************************************************)
\* C8: a run on a file with rows and no Name column never completes.
C8_MissingNameColumnIsFatal ==
    ("Name" \notin header /\ rows # <<>>) => pc # "done"

(***************************************************************************)
(* C9.  Reconciliation in calculate_ht: the five returned amounts sum to   *)
(* total exactly; tva_20 and tva_55 are returned unchanged, sales_55 and   *)
(* shipping are the rounded quotients of steps 4 and 1, and the whole      *)
(* difference total - credits_sum goes to sales_20.                        *)
(***************************************************************************)
\* q is n / d rounded to the nearest integer, ties away from zero (d > 0)
IsHalfUpQuotient(q, n, d) ==
    /\ 2 * d * Abs(q) <= 2 * Abs(n) + d
    /\ 2 * Abs(n) + d < 2 * d * Abs(q) + 2 * d
    /\ (q # 0 => (q < 0 <=> n < 0))

C9_ReconciliationHolds(data) ==
    LET r == calculate_ht(data.total, data.shipping, data.tva_20, data.tva_55)
        unadjusted  == 5 * Max(0, data.tva_20 - (data.shipping - r.shipping))
        credits_sum == data.tva_20 + data.tva_55 + unadjusted + r.sales_55 + r.shipping
    IN  /\ r.tva_20 + r.tva_55 + r.sales_20 + r.sales_55 + r.shipping = data.total
        /\ r.sales_20 = unadjusted + (data.total - credits_sum)
        /\ r.tva_20 = data.tva_20
        /\ r.tva_55 = data.tva_55
        /\ IsHalfUpQuotient(r.shipping, 100 * data.shipping, 120)
        /\ IsHalfUpQuotient(r.sales_55, 1000 * data.tva_55, 55)

\* C9: for every aggregated day the amounts returned by calculate_ht sum to total,
\* with the taxes unchanged and shipping and sales_55 the rounded quotients.
C9_Reconciliation ==
    AggregateDone => \A day \in DOMAIN daily : C9_ReconciliationHolds(daily[day])

\* a day whose reconciliation difference is not zero and whose standard-sales
\* line carries the reconciled amount
C9_Witness ==
    /\ GenerateDone
    /\ \E day \in DOMAIN daily :
           LET data == daily[day]
               r    == calculate_ht(data.total, data.shipping, data.tva_20, data.tva_55)
               unadjusted == 5 * Max(0, data.tva_20 - (data.shipping - r.shipping))
           IN  /\ r.sales_20 # unadjusted
               /\ r.sales_55 > 0 /\ r.shipping > 0 /\ r.tva_20 > 0
               /\ \E i \in 1..Len(entries) :
                      /\ entries[i].compte = ACCOUNTS["sales_20"][1]
                      /\ entries[i].credit = <<r.sales_20>>

(***************************************************************************)
(* C10.  Original claim: all lines of one day carry the same piece         *)
(* reference and entry date text, and the lines of two different calendar  *)
(* dates (any four-digit years) never carry the same piece reference.      *)
(* Amended: the second part holds for two dates whose years differ by less *)
(* than 100; the piece keeps only the last two digits of the year, so two  *)
(* dates a multiple of 100 years apart share their piece reference.        *)
(***************************************************************************)
BlockStart(k) == CHOOSE i \in BlockOf(k) : \A j \in BlockOf(k) : i <= j

OnePiecePerDay ==
    \A k \in 1..NumBlocks :
        \A i \in BlockOf(k) :
            /\ entries[i].piece = entries[BlockStart(k)].piece
            /\ entries[i].date = entries[BlockStart(k)].date

\* C10 (as claimed): the lines of one day share piece and date text, and no two
\* days share a piece reference.
C10_PieceIdentifiesDay ==
    GenerateDone =>
        /\ OnePiecePerDay
        /\ \A k, l \in 1..NumBlocks :
               k # l => entries[BlockStart(k)].piece # entries[BlockStart(l)].piece

\* C10 (amended): the lines of one day share piece and date text, and no two days
\* whose years differ by less than 100 share a piece reference.
C10_PieceIdentifiesDayWithinCentury ==
    GenerateDone =>
        /\ NumBlocks = Cardinality(DOMAIN daily)
        /\ OnePiecePerDay
        /\ \A k, l \in 1..NumBlocks :
               (k # l /\ Abs(DayAt(k).y - DayAt(l).y) < 100)
                   => entries[BlockStart(k)].piece # entries[BlockStart(l)].piece

C10_Witness ==
    /\ GenerateDone
    /\ \E k, l \in 1..NumBlocks :
           /\ k # l
           /\ Abs(DayAt(k).y - DayAt(l).y) < 100
           /\ Cardinality(BlockOf(k)) >= 3

(***************************************************************************)
(* C11.  Claim: utils.read_orders (the Streamlit page) and read_orders of  *)
(* the command line have the same kind of outcome on the same file: one    *)
(* fails exactly when the other fails, and when both succeed they keep the *)
(* same set of order identifiers.                                          *)
(* The two diverge.  The command line raises on an amount text that is not *)
(* a number, the page coerces it to 0 and succeeds; the page raises        *)
(* without a Name column, the command line skips every row and succeeds;   *)
(* the page keeps "A" and "A " as two orders, the command line as one.     *)
(***************************************************************************)
\* both read_orders have returned or raised
BothRead == pc # "read" /\ streamlit.state # "idle"

CliFailed == pc = "failed"

UtilsFailed == streamlit.state = "failed"

\* the identifiers each pipeline keeps
CliNames == DOMAIN orders

UtilsNames == {streamlit.frame[i].Name : i \in 1..Len(streamlit.frame)}

\* C11: on the same file, the command-line read_orders fails exactly when
\* utils.read_orders fails, and when both succeed they keep the same set of order
\* identifiers.
C11_PipelinesAgree ==
    BothRead =>
        /\ CliFailed <=> UtilsFailed
        /\ (~CliFailed /\ ~UtilsFailed) => CliNames = UtilsNames

\* the files on which nothing of the above arises: every column present, names
\* without surrounding whitespace, every amount a number, a date column of text
IsPlainFile ==
    /\ Columns \subseteq header
    /\ \A i \in 1..Len(rows) :
           /\ rows[i]["Name"] = Strip(rows[i]["Name"])
           /\ \A c \in AmountColumns : parse_amount(rows[i][c]).ok
    /\ IsTextColumn(rows, "Name")
    /\ DateColIsText(rows, DropDuplicates(rows, {}))

\* on a plain file the two pipelines agree: same outcome, same identifiers, and
\* every amount the page keeps quantizes to the amount the command line keeps
C11_AgreeOnPlainFiles ==
    (BothRead /\ IsPlainFile) =>
        /\ ~CliFailed /\ ~UtilsFailed
        /\ CliNames = UtilsNames
        /\ \A i \in 1..Len(streamlit.frame) :
               LET row == streamlit.frame[i]
                   ord == orders[row.Name]
               IN  /\ row.date = ord.date
                   /\ \A f \in {"total", "shipping", "tva_20", "tva_55"} :
                          Abs(row[f] - 10 * ord[f]) <= 5

\* a malformed amount on an extracted row: the command line has failed and the
\* page has read the file
C11_Divergence ==
    /\ BothRead
    /\ CliFailed /\ ~UtilsFailed
    /\ \E i \in 1..Len(rows) : IsExtracted(i) /\ HasMalformedAmount(rows[i])

====
